---- MODULE Spec2Model ----
(***************************************************************************)
(* Pico W air-conditioning controller: the DHT11 sampler task, the Watch   *)
(* broadcast of readings, the thermostat state machine driven by the       *)
(* control task, the two Signal slots (config update, current status) and  *)
(* the UART CLI and TCP consumers.                                          *)
(*                                                                         *)
(* Scheduling is the embassy executor's: one core, cooperative.  The code  *)
(* between two .await points of a task runs without interleaving, so every *)
(* action below is one such stretch.  Time is the embassy_time clock read  *)
(* in whole seconds (every duration of the program is a whole number of    *)
(* seconds).  A stretch takes far less than a second (the longest, one     *)
(* DHT11 exchange, some 25 ms), so a task whose timer has expired runs     *)
(* before the clock reads the next second, and within one stretch all      *)
(* calls of Instant::now() read the same value.                            *)
(***************************************************************************)
EXTENDS Integers, Sequences, FiniteSets, TLC

\* ---------------------------------------------------------------- bounds
\* The clock stops advancing here.
MaxTime == 9
\* SetConfig commands accepted from the console in one run.
MaxPush == 2
\* One call of update on its own: the latest clock reading, the latest
\* start time of the state and the longest duration of the config tried.
MaxUpdateTime == 4
MaxStart == 1
MaxDuration == 2
\* Last tick of the 1 Hz scenario, and the clock ticks per second there.
MaxScenarioTick == 30
ScenarioHz == 2

\* Duration::from_secs
Secs(n) == n
\* Duration::as_secs
as_secs(d) == d

\* ------------------------------------------------------------- data model
\* ControllerState
Idle == [kind |-> "Idle", starttime |-> 0]
Running(t) == [kind |-> "Running", starttime |-> t]
Cooldown(t) == [kind |-> "Cooldown", starttime |-> t]

\* The config the control task builds its controller with.
InitialConfig ==
  [threshold_temperature |-> 20,
   minimum_runtime |-> Secs(10),
   cooldown_time |-> Secs(10)]

\* `x as i8` of a 32-bit FIFO word.
AsI8(w) == LET b == w % 256 IN IF b >= 128 THEN b - 256 ELSE b

\* Samples a responding sensor delivers: humidity, 0, temperature, 0, checksum.
SensorSamples == { <<60, 0, 25, 0, 85>>, <<60, 0, 18, 0, 78>> }

\* Words a read of the empty RX FIFO may yield (the hardware leaves the
\* value undefined); 200 and 130 are bytes that are negative as i8.
UndefSamples == { <<0, 0, 0, 0, 0>>, <<200, 0, 130, 7, 0>> }

\* Arguments of the SetConfig command: Option<_> as a sequence, <<>> being
\* None (the option was omitted) and <<x>> being Some(x).
\* The commands tried: set_temp alone, and the two durations alone.
SetConfigArgs ==
  { [set_temp |-> <<10>>, min_runtime_secs |-> <<>>, min_cooldown_secs |-> <<>>],
    [set_temp |-> <<>>, min_runtime_secs |-> <<1>>, min_cooldown_secs |-> <<0>>] }

\* Option::unwrap_or
unwrap_or(opt, default) == IF opt = <<>> THEN default ELSE opt[1]

\* ------------------------------------------------------------------ state
VARIABLES
  now,                        \* embassy_time clock, in ticks
  halted,                     \* a task panicked: panic_probe stops the core
  \* DHT11 and its PIO state machine
  sensor_present,             \* the sensor answers the start pulse
  dht11_data_buf,             \* the buffer of the last get_temperature call
  \* temp_monitor_task
  mon_pc, mon_wake,
  \* DHT11_WATCH and its receivers' at_id
  DHT11_WATCH,
  dht11_controller_reciever, dht11_tcp_reciever, dht11_monitor,
  \* temp_controller task
  ctl_pc, ctl_wake,
  controller,                 \* [state, config]
  relay_output,               \* TRUE = Level::High
  \* the Signal slots
  CONTROLLER_UPDATE_CONFIG, CONTROLLER_CURRENT_STATUS,
  \* uart_cli
  cli_pc, controller_state,
  \* main's TCP loop
  tcp_pc,
  \* history, read by the properties only
  n_pushed,                   \* SetConfig commands so far
  applied_id,                 \* push number of the config applied last
  n_applied,                  \* configs applied so far
  applied_in,                 \* controller state kind when it was applied
  relay_off_at,               \* time of the last set_low (or of Output::new)
  cooldown_served,            \* cooldown_time compared when Cooldown was left
  last_status,                \* the status the control loop signalled last
  controller_state_change,    \* what the last call of update returned
  n_acquired,                 \* calls of get_temperature that have returned
  sc_tick                     \* tick number of the 1 Hz scenario

vars ==
  <<now, halted, sensor_present, dht11_data_buf,
    mon_pc, mon_wake, DHT11_WATCH, dht11_controller_reciever,
    dht11_tcp_reciever, dht11_monitor, ctl_pc, ctl_wake, controller,
    relay_output, CONTROLLER_UPDATE_CONFIG, CONTROLLER_CURRENT_STATUS,
    cli_pc, controller_state, tcp_pc, n_pushed, applied_id, n_applied,
    applied_in,
    relay_off_at, cooldown_served, last_status, controller_state_change,
    n_acquired, sc_tick>>

hwVars == <<sensor_present, dht11_data_buf, n_acquired>>
monVars == <<mon_pc, mon_wake>>
ctlVars ==
  <<ctl_pc, ctl_wake, controller, relay_output, dht11_controller_reciever,
    applied_id, n_applied, applied_in, relay_off_at, cooldown_served,
    last_status, controller_state_change>>
cliVars == <<cli_pc, controller_state, dht11_monitor, n_pushed>>
tcpVars == <<tcp_pc, dht11_tcp_reciever>>
sigVars == <<CONTROLLER_UPDATE_CONFIG, CONTROLLER_CURRENT_STATUS>>

\* ------------------------------------------------ Signal (embassy_sync)
\* Beside the config the slot's value carries, for the properties, the
\* number of the SetConfig command that built it and the command's options.
NoArgs == [set_temp |-> <<>>, min_runtime_secs |-> <<>>, min_cooldown_secs |-> <<>>]
EmptyConfigSignal ==
  [full |-> FALSE, val |-> [config |-> InitialConfig, id |-> 0, args |-> NoArgs]]
EmptyStatusSignal ==
  [full |-> FALSE, val |-> [state |-> Idle, config |-> InitialConfig]]

\* Signal::signal: the value replaces whatever the slot held.
signal_mutant(slot, v) ==
  [full |-> TRUE,
   val |-> IF "state" \in DOMAIN v THEN [v EXCEPT !.state = slot.val.state]
           ELSE v]
signal(slot, v) == [full |-> TRUE, val |-> v]

\* Signal::try_take, what is left in the slot: nothing.
try_take_mutant(slot, empty) == slot
try_take(slot, empty) == empty

\* ------------------------------------------------- Watch (embassy_sync)
\* Receiver::get is ready once a value was sent; it returns the current
\* value and sets the receiver's at_id to the Watch's current_id.
get_ready_mutant(watch) == TRUE
get_ready(watch) == watch.init

\* Sender::send: stores the value and advances current_id.  It takes no
\* account of any receiver.
send_ready_mutant(watch, cursors) == \A c \in cursors : c = watch.id
send_ready(watch, cursors) == TRUE

send_mutant(watch, v) == [init |-> TRUE, val |-> v, id |-> (watch.id + 1) % 2]
send(watch, v) == [init |-> TRUE, val |-> v, id |-> watch.id + 1]

\* ---------------------------------------------------------------- DHT11
\* StateMachineRx::pull reads the RX FIFO register; it does not wait for
\* the sensor to have filled the FIFO.
pull_ready_mutant(responding) == responding
pull_ready(responding) == TRUE

\* The five words the loop of get_temperature may read: with a responding
\* sensor the bytes of a finished exchange, or undefined words when the
\* FIFO is still empty; without one, undefined words.
pulled(responding) ==
  IF responding THEN SensorSamples \cup UndefSamples ELSE UndefSamples

\* What get_temperature returns: lane 2 as i8.
temperature_of_mutant(buf) == buf[3] % 256
temperature_of(buf) == AsI8(buf[3])
\* The humidity that goes with it: lane 0 as i8.
humidity_of(buf) == AsI8(buf[1])
\* The pair handed to the Watch.
get_temperature_humidity(buf) == <<temperature_of(buf), humidity_of(buf)>>

\* ------------------------------------------------------- TempController
\* TempController::update; current_time is Instant::now().
update_cooldown_mutant(state, config, current_temperature, current_time) ==
  CASE state.kind = "Idle" ->
         IF current_temperature > config.threshold_temperature
           THEN [state |-> Running(current_time), changed |-> TRUE]
           ELSE [state |-> state, changed |-> FALSE]
    [] state.kind = "Running" ->
         IF current_time > state.starttime + config.minimum_runtime
           THEN [state |-> Cooldown(current_time), changed |-> TRUE]
           ELSE [state |-> state, changed |-> FALSE]
    [] state.kind = "Cooldown" ->
         IF current_temperature > config.threshold_temperature
           THEN [state |-> Running(current_time), changed |-> TRUE]
           ELSE IF current_time > state.starttime + config.cooldown_time
             THEN [state |-> Idle, changed |-> TRUE]
             ELSE [state |-> state, changed |-> FALSE]

update_running_mutant(state, config, current_temperature, current_time) ==
  CASE state.kind = "Idle" ->
         IF current_temperature > config.threshold_temperature
           THEN [state |-> Running(current_time), changed |-> TRUE]
           ELSE [state |-> state, changed |-> FALSE]
    [] state.kind = "Running" ->
         IF current_temperature <= config.threshold_temperature
            \/ current_time > state.starttime + config.minimum_runtime
           THEN [state |-> Cooldown(current_time), changed |-> TRUE]
           ELSE [state |-> state, changed |-> FALSE]
    [] state.kind = "Cooldown" ->
         IF current_time > state.starttime + config.cooldown_time
           THEN [state |-> Idle, changed |-> TRUE]
           ELSE [state |-> state, changed |-> FALSE]

update_boundary_mutant(state, config, current_temperature, current_time) ==
  CASE state.kind = "Idle" ->
         IF current_temperature >= config.threshold_temperature
           THEN [state |-> Running(current_time), changed |-> TRUE]
           ELSE [state |-> state, changed |-> FALSE]
    [] state.kind = "Running" ->
         IF current_time >= state.starttime + config.minimum_runtime
           THEN [state |-> Cooldown(current_time), changed |-> TRUE]
           ELSE [state |-> state, changed |-> FALSE]
    [] state.kind = "Cooldown" ->
         IF current_time >= state.starttime + config.cooldown_time
           THEN [state |-> Idle, changed |-> TRUE]
           ELSE [state |-> state, changed |-> FALSE]

update_return_mutant(state, config, current_temperature, current_time) ==
  CASE state.kind = "Idle" ->
         IF current_temperature > config.threshold_temperature
           THEN [state |-> Running(current_time), changed |-> TRUE]
           ELSE [state |-> state, changed |-> FALSE]
    [] state.kind = "Running" ->
         IF current_time > state.starttime + config.minimum_runtime
           THEN [state |-> Cooldown(current_time), changed |-> TRUE]
           ELSE [state |-> state, changed |-> FALSE]
    [] state.kind = "Cooldown" ->
         IF current_time > state.starttime + config.cooldown_time
           THEN [state |-> Idle, changed |-> FALSE]
           ELSE [state |-> state, changed |-> FALSE]

update(state, config, current_temperature, current_time) ==
  CASE state.kind = "Idle" ->
         IF current_temperature > config.threshold_temperature
           THEN [state |-> Running(current_time), changed |-> TRUE]
           ELSE [state |-> state, changed |-> FALSE]
    [] state.kind = "Running" ->
         IF current_time > state.starttime + config.minimum_runtime
           THEN [state |-> Cooldown(current_time), changed |-> TRUE]
           ELSE [state |-> state, changed |-> FALSE]
    [] state.kind = "Cooldown" ->
         IF current_time > state.starttime + config.cooldown_time
           THEN [state |-> Idle, changed |-> TRUE]
           ELSE [state |-> state, changed |-> FALSE]

\* The relay writes that follow update.
relay_after_mutant(relay, res) ==
  IF res.changed /\ res.state.kind = "Running" THEN TRUE ELSE relay
relay_after(relay, res) ==
  IF res.changed /\ res.state.kind = "Running" THEN TRUE
  ELSE IF res.changed /\ res.state.kind = "Cooldown" THEN FALSE
  ELSE relay

\* TempController::new
new_controller_mutant(config, t) == [state |-> Idle, config |-> config]
new_controller(config, t) == [state |-> Cooldown(t), config |-> config]

\* TempController::update_config
update_config_mutant(ctl, new_config) ==
  [state |-> Idle, config |-> new_config]
update_config(ctl, new_config) == [ctl EXCEPT !.config = new_config]

\* ------------------------------------------------------------------- Init
Init ==
  /\ now = 0
  /\ halted = FALSE
  /\ sensor_present \in BOOLEAN
  /\ dht11_data_buf = <<0, 0, 0, 0, 0>>
  /\ mon_pc = "start"
  /\ mon_wake = 0
  /\ DHT11_WATCH = [init |-> FALSE, val |-> <<0, 0>>, id |-> 0]
  /\ dht11_controller_reciever = 0
  /\ dht11_tcp_reciever = 0
  /\ dht11_monitor = 0
  /\ ctl_pc = "start"
  /\ ctl_wake = 0
  /\ controller = [state |-> Idle, config |-> InitialConfig]
  /\ relay_output = FALSE
  /\ CONTROLLER_UPDATE_CONFIG = EmptyConfigSignal
  /\ CONTROLLER_CURRENT_STATUS = EmptyStatusSignal
  /\ cli_pc = "wait"
  /\ controller_state = EmptyStatusSignal.val
  /\ tcp_pc = "read"
  /\ n_pushed = 0
  /\ applied_id = 0
  /\ n_applied = 0
  /\ applied_in = "none"
  /\ relay_off_at = 0
  /\ cooldown_served = 0
  /\ last_status = EmptyStatusSignal.val
  /\ controller_state_change = FALSE
  /\ n_acquired = 0
  /\ sc_tick = 0

\* ------------------------------------------------------------------ clock
\* A task that was spawned, that send() woke, or whose timer has expired
\* runs before the clock moves.
Overdue ==
  \/ mon_pc = "start" \/ ctl_pc = "start"
  \/ ctl_pc = "get" /\ DHT11_WATCH.init
  \/ mon_pc # "start" /\ now >= mon_wake
  \/ ctl_pc = "sleep" /\ now >= ctl_wake

Tick ==
  /\ ~halted
  /\ now < MaxTime
  /\ ~Overdue
  /\ now' = now + 1
  /\ UNCHANGED <<halted, hwVars, monVars, DHT11_WATCH, ctlVars, cliVars,
                 tcpVars, sigVars, sc_tick>>

\* ------------------------------------------------------------------ DHT11
\* DHT11::get_temperature: enable, five FIFO reads, restart.
Acquire_mutant ==
  /\ pull_ready(sensor_present)
  /\ \E buf \in pulled(sensor_present) : dht11_data_buf' = buf
  /\ n_acquired' = n_acquired + 2
  /\ UNCHANGED sensor_present

Acquire ==
  /\ pull_ready(sensor_present)
  /\ \E buf \in pulled(sensor_present) : dht11_data_buf' = buf
  /\ n_acquired' = n_acquired + 1
  /\ UNCHANGED sensor_present

\* ------------------------------------------------------ temp_monitor_task
\* First poll: the first discarded acquisition, then Timer::after_secs(1).
MonStart_mutant ==
  /\ ~halted
  /\ mon_pc = "start"
  /\ Acquire
  /\ mon_pc' = "loop"
  /\ mon_wake' = now + Secs(1)
  /\ UNCHANGED <<now, halted, DHT11_WATCH, ctlVars, cliVars, tcpVars,
                 sigVars, sc_tick>>

MonStart ==
  /\ ~halted
  /\ mon_pc = "start"
  /\ Acquire
  /\ mon_pc' = "discard"
  /\ mon_wake' = now + Secs(1)
  /\ UNCHANGED <<now, halted, DHT11_WATCH, ctlVars, cliVars, tcpVars,
                 sigVars, sc_tick>>

\* The second discarded acquisition; the loop's first Timer::after_secs(1).
MonDiscard ==
  /\ ~halted
  /\ mon_pc = "discard" /\ now >= mon_wake
  /\ Acquire
  /\ mon_pc' = "loop"
  /\ mon_wake' = now + Secs(1)
  /\ UNCHANGED <<now, halted, DHT11_WATCH, ctlVars, cliVars, tcpVars,
                 sigVars, sc_tick>>

\* One turn of the loop: acquire, send, Timer::after_secs(1).
MonSample ==
  /\ ~halted
  /\ mon_pc = "loop" /\ now >= mon_wake
  /\ Acquire
  /\ send_ready(DHT11_WATCH,
                {dht11_controller_reciever, dht11_tcp_reciever, dht11_monitor})
  /\ DHT11_WATCH' = send(DHT11_WATCH, get_temperature_humidity(dht11_data_buf'))
  /\ mon_pc' = "loop"
  /\ mon_wake' = now + Secs(1)
  /\ UNCHANGED <<now, halted, ctlVars, cliVars, tcpVars, sigVars, sc_tick>>

\* -------------------------------------------------------- temp_controller
\* First poll: the receiver, TempController::new with the relay pin low.
CtlStart ==
  /\ ~halted
  /\ ctl_pc = "start"
  /\ controller' = new_controller(InitialConfig, now)
  /\ relay_output' = FALSE
  /\ relay_off_at' = now
  /\ ctl_pc' = "get"
  /\ UNCHANGED <<now, halted, hwVars, monVars, DHT11_WATCH, ctl_wake,
                 dht11_controller_reciever, applied_id, n_applied,
                 applied_in, cooldown_served, last_status,
                 controller_state_change, cliVars, tcpVars, sigVars, sc_tick>>

\* One turn of the loop, from get() returning to Timer::after_secs(1).
CtlBody(temperature, t) ==
  LET res == update(controller.state, controller.config, temperature, t)
      updated == [state |-> res.state, config |-> controller.config]
      taken == CONTROLLER_UPDATE_CONFIG.full
      pending == CONTROLLER_UPDATE_CONFIG.val
  IN /\ relay_output' = relay_after(relay_output, res)
     /\ CONTROLLER_CURRENT_STATUS' = signal(CONTROLLER_CURRENT_STATUS, updated)
     /\ last_status' = updated
     /\ controller_state_change' = res.changed
     /\ CONTROLLER_UPDATE_CONFIG' =
          IF taken THEN try_take(CONTROLLER_UPDATE_CONFIG, EmptyConfigSignal)
          ELSE CONTROLLER_UPDATE_CONFIG
     /\ controller' =
          IF taken THEN update_config(updated, pending.config) ELSE updated
     /\ applied_id' = IF taken THEN pending.id ELSE applied_id
     /\ n_applied' = IF taken THEN n_applied + 1 ELSE n_applied
     /\ applied_in' = IF taken THEN res.state.kind ELSE applied_in
     /\ relay_off_at' =
          IF relay_output /\ ~relay_output' THEN t ELSE relay_off_at
     /\ cooldown_served' =
          IF controller.state.kind = "Cooldown" /\ res.state.kind # "Cooldown"
            THEN controller.config.cooldown_time
            ELSE cooldown_served

CtlTick ==
  /\ ~halted
  /\ ctl_pc = "get" \/ (ctl_pc = "sleep" /\ now >= ctl_wake)
  /\ get_ready(DHT11_WATCH)
  /\ dht11_controller_reciever' = DHT11_WATCH.id
  /\ CtlBody(DHT11_WATCH.val[1], now)
  /\ ctl_pc' = "sleep"
  /\ ctl_wake' = now + Secs(1)
  /\ UNCHANGED <<now, halted, hwVars, monVars, DHT11_WATCH, cliVars, tcpVars,
                 sc_tick>>

\* --------------------------------------------------------------- uart_cli
\* CONTROLLER_CURRENT_STATUS.wait() completes; the loop's first get()
\* returns at once (a status exists only after a reading was sent) and the
\* task waits for a UART byte.
CliWait ==
  /\ ~halted
  /\ cli_pc = "wait"
  /\ CONTROLLER_CURRENT_STATUS.full
  /\ get_ready(DHT11_WATCH)
  /\ controller_state' = CONTROLLER_CURRENT_STATUS.val
  /\ CONTROLLER_CURRENT_STATUS' =
       try_take(CONTROLLER_CURRENT_STATUS, EmptyStatusSignal)
  /\ dht11_monitor' = DHT11_WATCH.id
  /\ cli_pc' = "read"
  /\ UNCHANGED <<now, halted, hwVars, monVars, DHT11_WATCH, ctlVars, tcpVars,
                 CONTROLLER_UPDATE_CONFIG, n_pushed, sc_tick>>

\* A byte that completes no command, or Temp or Addr, or a UART error;
\* then get() again.
CliByte ==
  /\ ~halted
  /\ cli_pc = "read"
  /\ dht11_monitor' = DHT11_WATCH.id
  /\ UNCHANGED <<now, halted, hwVars, monVars, DHT11_WATCH, ctlVars, tcpVars,
                 sigVars, cli_pc, controller_state, n_pushed, sc_tick>>

\* The status the CLI holds after its try_take of the status slot.
polled_mutant(slot, view) == view
polled(slot, view) == IF slot.full THEN slot.val ELSE view

\* Duration - Duration panics when the result would be negative.
remaining_underflows(view, t) ==
  \/ /\ view.state.kind = "Running"
     /\ view.config.minimum_runtime < t - view.state.starttime
  \/ /\ view.state.kind = "Cooldown"
     /\ view.config.cooldown_time < t - view.state.starttime

\* The Status command.
CliStatus ==
  /\ ~halted
  /\ cli_pc = "read"
  /\ LET view == polled(CONTROLLER_CURRENT_STATUS, controller_state)
     IN /\ controller_state' = view
        /\ halted' = remaining_underflows(view, now)
  /\ CONTROLLER_CURRENT_STATUS' =
       IF CONTROLLER_CURRENT_STATUS.full
         THEN try_take(CONTROLLER_CURRENT_STATUS, EmptyStatusSignal)
         ELSE CONTROLLER_CURRENT_STATUS
  /\ dht11_monitor' = IF halted' THEN dht11_monitor ELSE DHT11_WATCH.id
  /\ UNCHANGED <<now, hwVars, monVars, DHT11_WATCH, ctlVars, tcpVars,
                 CONTROLLER_UPDATE_CONFIG, cli_pc, n_pushed, sc_tick>>

\* The GetConfig command.
CliGetConfig ==
  /\ ~halted
  /\ cli_pc = "read"
  /\ controller_state' = polled(CONTROLLER_CURRENT_STATUS, controller_state)
  /\ CONTROLLER_CURRENT_STATUS' =
       IF CONTROLLER_CURRENT_STATUS.full
         THEN try_take(CONTROLLER_CURRENT_STATUS, EmptyStatusSignal)
         ELSE CONTROLLER_CURRENT_STATUS
  /\ dht11_monitor' = DHT11_WATCH.id
  /\ UNCHANGED <<now, halted, hwVars, monVars, DHT11_WATCH, ctlVars, tcpVars,
                 CONTROLLER_UPDATE_CONFIG, cli_pc, n_pushed, sc_tick>>

\* The config SetConfig builds: omitted options come from the CLI's view.
new_config(view, set_temp, min_runtime_secs, min_cooldown_secs) ==
  [threshold_temperature |->
     unwrap_or(set_temp, view.config.threshold_temperature),
   minimum_runtime |->
     Secs(unwrap_or(min_runtime_secs, as_secs(view.config.minimum_runtime))),
   cooldown_time |->
     Secs(unwrap_or(min_cooldown_secs, as_secs(view.config.cooldown_time)))]

\* The SetConfig command.
CliSetConfig ==
  /\ ~halted
  /\ cli_pc = "read"
  /\ n_pushed < MaxPush
  /\ \E a \in SetConfigArgs :
       CONTROLLER_UPDATE_CONFIG' =
         signal(CONTROLLER_UPDATE_CONFIG,
                [config |-> new_config(controller_state, a.set_temp,
                                       a.min_runtime_secs, a.min_cooldown_secs),
                 id |-> n_pushed + 1,
                 args |-> a])
  /\ n_pushed' = n_pushed + 1
  /\ dht11_monitor' = DHT11_WATCH.id
  /\ UNCHANGED <<now, halted, hwVars, monVars, DHT11_WATCH, ctlVars, tcpVars,
                 CONTROLLER_CURRENT_STATUS, cli_pc, controller_state, sc_tick>>

\* ------------------------------------------------------- main's TCP loop
\* socket.read returns a request; get() returns the reading if there is one.
TcpRequest ==
  /\ ~halted
  /\ tcp_pc = "read"
  /\ IF get_ready(DHT11_WATCH)
       THEN /\ dht11_tcp_reciever' = DHT11_WATCH.id
            /\ tcp_pc' = "read"
       ELSE /\ tcp_pc' = "get"
            /\ UNCHANGED dht11_tcp_reciever
  /\ UNCHANGED <<now, halted, hwVars, monVars, DHT11_WATCH, ctlVars, cliVars,
                 sigVars, sc_tick>>

\* get() completes for a request made before the first reading.
TcpGet ==
  /\ ~halted
  /\ tcp_pc = "get"
  /\ get_ready(DHT11_WATCH)
  /\ dht11_tcp_reciever' = DHT11_WATCH.id
  /\ tcp_pc' = "read"
  /\ UNCHANGED <<now, halted, hwVars, monVars, DHT11_WATCH, ctlVars, cliVars,
                 sigVars, sc_tick>>

\* ------------------------------------------------------------------- Spec
\* The sampler, the control task and the console.  No TCP client connects:
\* main's loop stays in accept() and its receiver is never read.
Next ==
  \/ Tick
  \/ MonStart
  \/ MonDiscard
  \/ MonSample
  \/ CtlStart
  \/ CtlTick
  \/ CliWait
  \/ CliByte
  \/ CliStatus
  \/ CliGetConfig
  \/ CliSetConfig

Spec == Init /\ [][Next]_vars

\* The same with a TCP client that sends requests.  The TCP loop only reads
\* DHT11_WATCH through its own receiver and nothing reads that receiver, so
\* the other tasks behave here as they do under Spec.
NextTcp ==
  \/ Tick
  \/ MonStart
  \/ MonDiscard
  \/ MonSample
  \/ CtlStart
  \/ CtlTick
  \/ CliWait
  \/ CliByte
  \/ CliStatus
  \/ CliGetConfig
  \/ CliSetConfig
  \/ TcpRequest
  \/ TcpGet

SpecTcp == Init /\ [][NextTcp]_vars

\* --------------------------------------------------- the 1 Hz scenario
\* threshold 20, minimum_runtime 10 s, cooldown 10 s; the controller is
\* Idle; one update per second with the temperatures 18, 22, 23, 19, 15
\* and 15 from then on.  The clock counts 1/ScenarioHz seconds here: update
\* number k runs at some instant of second k.
ScenarioConfig ==
  [threshold_temperature |-> 20,
   minimum_runtime |-> 10 * ScenarioHz,
   cooldown_time |-> 10 * ScenarioHz]

ScenarioTemps == <<18, 22, 23, 19, 15>>
ScenarioTemp(k) == IF k <= Len(ScenarioTemps) THEN ScenarioTemps[k] ELSE 15

InitScenario ==
  /\ now = 0
  /\ halted = FALSE
  /\ sensor_present = TRUE
  /\ dht11_data_buf = <<0, 0, 0, 0, 0>>
  /\ mon_pc = "loop"
  /\ mon_wake = 0
  /\ DHT11_WATCH = [init |-> FALSE, val |-> <<0, 0>>, id |-> 0]
  /\ dht11_controller_reciever = 0
  /\ dht11_tcp_reciever = 0
  /\ dht11_monitor = 0
  /\ ctl_pc = "sleep"
  /\ ctl_wake = 0
  /\ controller = [state |-> Idle, config |-> ScenarioConfig]
  /\ relay_output = FALSE
  /\ CONTROLLER_UPDATE_CONFIG = EmptyConfigSignal
  /\ CONTROLLER_CURRENT_STATUS = EmptyStatusSignal
  /\ cli_pc = "wait"
  /\ controller_state = EmptyStatusSignal.val
  /\ tcp_pc = "read"
  /\ n_pushed = 0
  /\ applied_id = 0
  /\ n_applied = 0
  /\ applied_in = "none"
  /\ relay_off_at = 0
  /\ cooldown_served = 0
  /\ last_status = EmptyStatusSignal.val
  /\ controller_state_change = FALSE
  /\ n_acquired = 2
  /\ sc_tick = 0

\* Update number sc_tick + 1, at an instant of its second, on the reading
\* the sampler has just sent.
ScenarioTick ==
  /\ sc_tick < MaxScenarioTick
  /\ sc_tick' = sc_tick + 1
  /\ \E j \in 0..(ScenarioHz - 1) : now' = sc_tick' * ScenarioHz + j
  /\ DHT11_WATCH' = send(DHT11_WATCH, <<ScenarioTemp(sc_tick'), 0>>)
  /\ dht11_controller_reciever' = DHT11_WATCH'.id
  /\ CtlBody(ScenarioTemp(sc_tick'), now')
  /\ ctl_wake' = now' + ScenarioHz
  /\ UNCHANGED <<halted, hwVars, monVars, ctl_pc, cliVars, tcpVars>>

NextScenario == ScenarioTick

SpecScenario == InitScenario /\ [][NextScenario]_vars

\* ------------------------------------------------------ the decode alone
\* FIFO words tried in lanes 0 and 2: bytes on both sides of the i8 sign
\* bit, and words above a byte (281 = 256 + 25, 65535 = 255 * 256 + 255).
LaneValues == {0, 25, 60, 127, 128, 200, 255, 281, 65535}

\* Buffers get_temperature's loop may have filled; lane 4 matches the sum
\* of the others in some and not in others.
DecodeInputs ==
  { <<l0, 0, l2, 0, l4>> : l0 \in LaneValues, l2 \in LaneValues, l4 \in {0, 85} }

\* The sampler is in its loop and has read the five words of an exchange.
InitDecode ==
  /\ now = 0
  /\ halted = FALSE
  /\ sensor_present = TRUE
  /\ dht11_data_buf \in DecodeInputs
  /\ mon_pc = "loop"
  /\ mon_wake = 0
  /\ DHT11_WATCH = [init |-> FALSE, val |-> <<0, 0>>, id |-> 0]
  /\ dht11_controller_reciever = 0
  /\ dht11_tcp_reciever = 0
  /\ dht11_monitor = 0
  /\ ctl_pc = "get"
  /\ ctl_wake = 0
  /\ controller = new_controller(InitialConfig, 0)
  /\ relay_output = FALSE
  /\ CONTROLLER_UPDATE_CONFIG = EmptyConfigSignal
  /\ CONTROLLER_CURRENT_STATUS = EmptyStatusSignal
  /\ cli_pc = "wait"
  /\ controller_state = EmptyStatusSignal.val
  /\ tcp_pc = "read"
  /\ n_pushed = 0
  /\ applied_id = 0
  /\ n_applied = 0
  /\ applied_in = "none"
  /\ relay_off_at = 0
  /\ cooldown_served = 0
  /\ last_status = EmptyStatusSignal.val
  /\ controller_state_change = FALSE
  /\ n_acquired = 3
  /\ sc_tick = 0

\* The rest of the sampler's turn: the buffer is decoded and the pair sent.
Decode ==
  /\ ~DHT11_WATCH.init
  /\ DHT11_WATCH' = send(DHT11_WATCH, get_temperature_humidity(dht11_data_buf))
  /\ UNCHANGED <<now, halted, hwVars, monVars, ctlVars, cliVars, tcpVars,
                 sigVars, sc_tick>>

NextDecode == Decode

SpecDecode == InitDecode /\ [][NextDecode]_vars

\* ------------------------------------------------- one update on its own
\* The states, configs and readings one turn of the control loop is tried
\* on; the readings lie on both sides of each threshold and at the ends of
\* i8.
UpdateStates ==
  {Idle} \cup {Running(t) : t \in 0..MaxStart}
         \cup {Cooldown(t) : t \in 0..MaxStart}
UpdateConfigs ==
  [threshold_temperature : {-5, 20},
   minimum_runtime : {Secs(d) : d \in 0..MaxDuration},
   cooldown_time : {Secs(d) : d \in 0..MaxDuration}]
UpdateTemps == {-128, -6, -5, -4, 19, 20, 21, 127}

\* The control task is due for a turn: a reading is out, the controller is
\* in one of the states with the relay as that state has it, and the
\* clock is not before the state's start time.
InitUpdate ==
  /\ now \in 0..MaxUpdateTime
  /\ halted = FALSE
  /\ sensor_present = TRUE
  /\ dht11_data_buf = <<0, 0, 0, 0, 0>>
  /\ mon_pc = "loop"
  /\ mon_wake = now + Secs(1)
  /\ \E temperature \in UpdateTemps :
       DHT11_WATCH = [init |-> TRUE, val |-> <<temperature, 0>>, id |-> 1]
  /\ dht11_controller_reciever = 0
  /\ dht11_tcp_reciever = 0
  /\ dht11_monitor = 0
  /\ ctl_pc = "sleep"
  /\ ctl_wake = now
  /\ controller \in [state : UpdateStates, config : UpdateConfigs]
  /\ controller.state.starttime <= now
  /\ relay_output = (controller.state.kind = "Running")
  /\ CONTROLLER_UPDATE_CONFIG = EmptyConfigSignal
  /\ CONTROLLER_CURRENT_STATUS = EmptyStatusSignal
  /\ cli_pc = "wait"
  /\ controller_state = EmptyStatusSignal.val
  /\ tcp_pc = "read"
  /\ n_pushed = 0
  /\ applied_id = 0
  /\ n_applied = 0
  /\ applied_in = "none"
  /\ relay_off_at = 0
  /\ cooldown_served = 0
  /\ last_status = EmptyStatusSignal.val
  /\ controller_state_change = FALSE
  /\ n_acquired = 3
  /\ sc_tick = 0

NextUpdate == CtlTick

SpecUpdate == InitUpdate /\ [][NextUpdate]_vars

\* ------------------------------------------------------------- properties
\* The control task has built its controller.
Started == ctl_pc # "start"

\* C1: the controller never goes from Cooldown to Running in one update
\* (Cooldown is left only to Idle), and the relay is switched on only when
\* more than the cooldown_time that ended the last Cooldown has passed since
\* the relay was last switched off (or since it was created low).
C1_CooldownBeforeRunning ==
  [][ /\ (Started /\ controller.state.kind = "Cooldown")
           => controller'.state.kind \in {"Cooldown", "Idle"}
      /\ (~relay_output /\ relay_output')
           => /\ controller.state.kind = "Idle"
              /\ now > relay_off_at + cooldown_served ]_vars

\* The relay is on again after it was switched off by a Running -> Cooldown
\* transition.
C1_Witness == relay_output /\ relay_off_at > 0

\* C2: while the controller is Running{t0} and now <= t0 + minimum_runtime,
\* no step changes the state or lowers the relay, whatever reading the
\* update is given; and the relay is high whenever Running is the state.
C2_MinimumRuntime ==
  [][ /\ (controller.state.kind = "Running"
          /\ now <= controller.state.starttime + controller.config.minimum_runtime)
           => (controller'.state = controller.state /\ relay_output')
      /\ (Started /\ controller'.state.kind = "Running") => relay_output' ]_vars

\* The controller is Running, inside minimum_runtime, and has just run an
\* update, later than the one that entered Running, on a reading at or
\* below the threshold.
C2_Witness ==
  /\ controller.state.kind = "Running"
  /\ relay_output
  /\ ctl_pc = "sleep"
  /\ ctl_wake > controller.state.starttime + Secs(1)
  /\ now <= controller.state.starttime + controller.config.minimum_runtime
  /\ dht11_controller_reciever = DHT11_WATCH.id
  /\ DHT11_WATCH.val[1] <= controller.config.threshold_temperature

\* C3: TempController::new at time s leaves Cooldown{s} with the relay low,
\* and every step taken in Cooldown{t0} with now <= t0 + cooldown_time
\* leaves Cooldown{t0} and the relay low, whatever reading it is given.
C3_StartupCooldown ==
  [][ /\ (~Started /\ Started')
           => (controller'.state = Cooldown(now) /\ ~relay_output')
      /\ (Started /\ controller.state.kind = "Cooldown"
          /\ now <= controller.state.starttime + controller.config.cooldown_time)
           => (controller'.state = controller.state /\ ~relay_output') ]_vars

\* Still in the Cooldown of startup after an update on a reading above the
\* threshold.
C3_Witness ==
  /\ Started
  /\ controller.state = Cooldown(0)
  /\ relay_off_at = 0
  /\ ~relay_output
  /\ ctl_pc = "sleep"
  /\ dht11_controller_reciever = DHT11_WATCH.id
  /\ DHT11_WATCH.val[1] > controller.config.threshold_temperature

\* The steps in which a consumer's get() returns.
CtlGets == CtlTick
TcpGets == TcpGet \/ (TcpRequest /\ tcp_pc' = "read")
CliGets ==
  \/ CliWait \/ CliByte \/ CliGetConfig \/ CliSetConfig
  \/ (CliStatus /\ ~halted')

\* C4 as claimed: every get() of every consumer returns a Reading with a
\* sequence number strictly greater than the one the consumer had before.
C4_StrictlyIncreasing ==
  [][ /\ CtlGets => dht11_controller_reciever' > dht11_controller_reciever
      /\ TcpGets => dht11_tcp_reciever' > dht11_tcp_reciever
      /\ CliGets => dht11_monitor' > dht11_monitor ]_vars

\* C4 as amended: a get() returns only once a first Reading was sent, and
\* then returns the latest Reading at once, so a consumer's sequence numbers
\* never decrease (it never receives a Reading older than one it already
\* received) but may repeat.
C4_NeverOlder ==
  [][ /\ dht11_controller_reciever' >= dht11_controller_reciever
      /\ dht11_tcp_reciever' >= dht11_tcp_reciever
      /\ dht11_monitor' >= dht11_monitor
      /\ CtlGets => (DHT11_WATCH.init /\ DHT11_WATCH.id >= 1
                     /\ dht11_controller_reciever' = DHT11_WATCH.id)
      /\ TcpGets => (DHT11_WATCH.init /\ DHT11_WATCH.id >= 1
                     /\ dht11_tcp_reciever' = DHT11_WATCH.id)
      /\ CliGets => (DHT11_WATCH.init /\ DHT11_WATCH.id >= 1
                     /\ dht11_monitor' = DHT11_WATCH.id) ]_vars

\* Each of the three consumers has received a second or later Reading.
C4_Witness ==
  /\ dht11_controller_reciever >= 2
  /\ dht11_tcp_reciever >= 2
  /\ dht11_monitor >= 2

\* C5 as claimed: when the sampler acquires and sends the next Reading, the
\* control loop has published the status computed from the previous one.
C5_StatusBeforeNextAcquire ==
  [][ (MonSample /\ DHT11_WATCH.init)
        => (ctl_pc = "sleep" /\ dht11_controller_reciever = DHT11_WATCH.id) ]_vars

\* C5 as amended: a status is published only after the Reading it was
\* computed from (the Watch holds a Reading and the control loop's
\* sequence number is one that was sent).  Nothing orders that publication
\* before the sampler's next acquisition.
C5_StatusAfterReading ==
  (CONTROLLER_CURRENT_STATUS.full \/ ctl_pc = "sleep")
    => /\ DHT11_WATCH.init
       /\ dht11_controller_reciever >= 1
       /\ dht11_controller_reciever <= DHT11_WATCH.id

\* A status is out, computed from a Reading, and the sampler has already
\* sent a later Reading.
C5_Witness ==
  /\ CONTROLLER_CURRENT_STATUS.full
  /\ dht11_controller_reciever >= 1
  /\ DHT11_WATCH.id > dht11_controller_reciever

\* The sampler's timer has expired (or the task was just spawned).
MonDue == mon_pc = "start" \/ now >= mon_wake

\* C6 as claimed, the lanes: with a sensor that never responds every
\* acquisition returns five zero lanes.
C6_ZeroedLanes ==
  (~sensor_present /\ mon_pc # "start") => dht11_data_buf = <<0, 0, 0, 0, 0>>

\* C6 as amended: with a sensor that never responds the acquisition does
\* not wait: whenever the sampler is due its step (acquire, and in the loop
\* send, up to the next Timer) can be taken; the lanes it returns are
\* whatever the FIFO reads gave.
C6_AcquireReturns ==
  (~sensor_present /\ ~halted /\ MonDue)
    => ENABLED (MonStart \/ MonDiscard \/ MonSample)

\* Without a sensor the sampler has published two Readings, the last one
\* from lanes that are not zero.
C6_Witness ==
  /\ ~sensor_present
  /\ DHT11_WATCH.id >= 2
  /\ dht11_data_buf # <<0, 0, 0, 0, 0>>

\* C7: a tick of the control loop that finds a config in the slot applies
\* it, empties the slot, and the config is the last one pushed and one not
\* applied before; a tick that finds the slot empty keeps its config and
\* completes all the same.  No more configs are applied than were pushed.
C7_ConfigSlot ==
  [][ /\ CtlTick =>
           IF CONTROLLER_UPDATE_CONFIG.full
             THEN /\ controller'.config = CONTROLLER_UPDATE_CONFIG.val.config
                  /\ ~CONTROLLER_UPDATE_CONFIG'.full
                  /\ applied_id' = n_pushed
                  /\ applied_id' > applied_id
                  /\ n_applied' = n_applied + 1
             ELSE /\ controller'.config = controller.config
                  /\ ~CONTROLLER_UPDATE_CONFIG'.full
                  /\ n_applied' = n_applied
                  /\ ctl_pc' = "sleep"
      /\ ~CtlTick => (controller'.config = controller.config
                      /\ n_applied' = n_applied)
      /\ n_applied' <= n_pushed' ]_vars

\* Two configs were pushed between two drains and only the second was
\* applied.
C7_Witness == n_pushed = 2 /\ applied_id = 2 /\ n_applied = 1

\* C8: a tick of the control loop leaves the state that update produced,
\* variant and start time, whether or not it applied a new config after
\* the update; no other step changes the controller.
C8_ConfigKeepsState ==
  [][ /\ CtlTick =>
           controller'.state =
             update(controller.state, controller.config,
                    DHT11_WATCH.val[1], now).state
      /\ (Started /\ ~CtlTick) => controller' = controller ]_vars

\* A config was applied while the controller was Running, and it still is
\* Running from the same start time under the new config.
C8_Witness ==
  /\ applied_in = "Running"
  /\ controller.state.kind = "Running"
  /\ controller.config # InitialConfig
  /\ ctl_pc = "sleep"
  /\ ctl_wake > controller.state.starttime + Secs(1)
  /\ ~CONTROLLER_UPDATE_CONFIG.full

\* C9: in the scenario, update 1 leaves Idle; update 2 enters Running with
\* the relay on; after each of the updates 3 to 11 the state is Running and
\* the relay on; Cooldown (relay off) is entered at update 12 or later and
\* Idle again at update 22 or later.
C9_Scenario ==
  /\ sc_tick = 1 => (controller.state = Idle /\ ~relay_output)
  /\ sc_tick \in 2..11 => (controller.state.kind = "Running" /\ relay_output)
  /\ (sc_tick >= 1 /\ controller.state.kind = "Cooldown")
       => (sc_tick >= 12 /\ ~relay_output)
  /\ (sc_tick >= 2 /\ controller.state.kind = "Idle")
       => (sc_tick >= 22 /\ ~relay_output)

\* The scenario has run through Running and Cooldown back to Idle.
C9_Witness == sc_tick >= 22 /\ controller.state.kind = "Idle"

\* C10: whenever the sampler's loop timer has expired its send step can be
\* taken, wherever the three receivers stand.
C10_SendNeverWaits ==
  (~halted /\ mon_pc = "loop" /\ now >= mon_wake) => ENABLED MonSample

\* Two Readings were published while the TCP loop never read one.
C10_Witness ==
  /\ DHT11_WATCH.id >= 2
  /\ dht11_tcp_reciever = 0
  /\ tcp_pc = "read"
  /\ mon_pc = "loop" /\ now >= mon_wake

\* C11: every tick of the control loop, and so every tick in which update
\* changed the state, publishes a status before the task suspends; the
\* status is the state update left together with the config the controller
\* held at that instant (the one from before the drain); no other step
\* writes a status, and the CLI's view is either kept or replaced by the
\* whole status of the slot.
C11_StatusSnapshot ==
  [][ /\ CtlTick =>
           /\ CONTROLLER_CURRENT_STATUS'.full
           /\ CONTROLLER_CURRENT_STATUS'.val.state = controller'.state
           /\ CONTROLLER_CURRENT_STATUS'.val.config = controller.config
      /\ ~CtlTick =>
           \/ CONTROLLER_CURRENT_STATUS' = CONTROLLER_CURRENT_STATUS
           \/ CONTROLLER_CURRENT_STATUS' = EmptyStatusSignal
      /\ \/ controller_state' = controller_state
         \/ /\ CONTROLLER_CURRENT_STATUS.full
            /\ controller_state' = CONTROLLER_CURRENT_STATUS.val ]_vars

\* The tick that entered Running also applied a new config: the status in
\* the slot has the new state and the config from before the drain.
C11_Witness ==
  /\ CONTROLLER_CURRENT_STATUS.full
  /\ CONTROLLER_CURRENT_STATUS.val.state = controller.state
  /\ controller.state.kind = "Running"
  /\ ctl_pc = "sleep"
  /\ ctl_wake = controller.state.starttime + Secs(1)
  /\ applied_in = "Running"
  /\ CONTROLLER_CURRENT_STATUS.val.config # controller.config

\* C12: a status in the slot is the one the control loop signalled last;
\* once the CLI is past its first wait the Status and GetConfig commands
\* can always be taken, slot full or empty, and each leaves the CLI's view
\* equal to the status signalled last and the slot empty.
C12_PollIsLatest ==
  [][ /\ CONTROLLER_CURRENT_STATUS.full
           => CONTROLLER_CURRENT_STATUS.val = last_status
      /\ (cli_pc = "read" /\ ~halted)
           => (ENABLED CliStatus /\ ENABLED CliGetConfig)
      /\ (CliStatus \/ CliGetConfig)
           => /\ controller_state' = last_status
              /\ ~CONTROLLER_CURRENT_STATUS'.full ]_vars

\* The CLI's view is a status published after a SetConfig of its own was
\* applied, so one it got from a poll, and the slot is empty.
C12_Witness ==
  /\ cli_pc = "read"
  /\ ~CONTROLLER_CURRENT_STATUS.full
  /\ controller_state = last_status
  /\ controller_state.config # InitialConfig
  /\ controller_state.state.kind = "Running"

\* C13: the pair decoded from a buffer is lane 2 and lane 0, each as the
\* signed 8-bit value congruent to the lane modulo 256 (128..255 come out
\* negative), whatever lane 4 holds; lanes 60, 0, 25, 0, 85 give
\* temperature 25 and humidity 60.
C13_Decode ==
  DHT11_WATCH.init =>
    LET temperature == DHT11_WATCH.val[1]
        humidity == DHT11_WATCH.val[2]
    IN /\ temperature \in -128..127
       /\ (dht11_data_buf[3] - temperature) % 256 = 0
       /\ humidity \in -128..127
       /\ (dht11_data_buf[1] - humidity) % 256 = 0
       /\ dht11_data_buf[3] % 256 >= 128 => temperature < 0
       /\ dht11_data_buf[1] % 256 >= 128 => humidity < 0
       /\ dht11_data_buf = <<60, 0, 25, 0, 85>> => DHT11_WATCH.val = <<25, 60>>

\* A buffer whose lane 4 is not the sum of the others and whose lane 2 has
\* the sign bit set was decoded, to a negative temperature.
C13_Witness ==
  /\ DHT11_WATCH.init
  /\ dht11_data_buf = <<60, 0, 200, 0, 85>>
  /\ DHT11_WATCH.val = <<-56, 60>>

\* The steps of temp_monitor_task, the task the DHT11 was moved into.
MonSteps == MonStart \/ MonDiscard \/ MonSample

\* C14: get_temperature has no suspension point, so an acquisition starts
\* and returns inside one step: every step that acquires is a step of
\* temp_monitor_task and completes exactly one acquisition; the steps of
\* the other tasks leave the PIO state machine alone.
C14_OneAcquirer ==
  [][ /\ n_acquired' # n_acquired
           => (n_acquired' = n_acquired + 1 /\ MonSteps)
      /\ ~MonSteps => UNCHANGED hwVars ]_vars

\* Four acquisitions have returned, with turns of the control loop and
\* CLI commands between them.
C14_Witness ==
  /\ n_acquired >= 4
  /\ dht11_controller_reciever >= 1
  /\ dht11_controller_reciever < DHT11_WATCH.id
  /\ n_pushed >= 1

\* C15: the state one turn of the control loop leaves is the one the
\* transition table gives for the state, reading, clock and config it
\* started from: Idle to Running{now} iff the reading is above the
\* threshold, Running{t0} to Cooldown{now} iff now > t0 + minimum_runtime,
\* Cooldown{t0} to Idle iff now > t0 + cooldown_time, otherwise the same
\* state; from Running and Cooldown every other reading gives the same.
C15_TransitionTable ==
  [][ CtlTick =>
        LET state == controller.state
            config == controller.config
            temperature == DHT11_WATCH.val[1]
        IN /\ state.kind = "Idle" =>
                controller'.state =
                  IF temperature > config.threshold_temperature
                    THEN [kind |-> "Running", starttime |-> now]
                    ELSE state
           /\ state.kind = "Running" =>
                controller'.state =
                  IF now > state.starttime + config.minimum_runtime
                    THEN [kind |-> "Cooldown", starttime |-> now]
                    ELSE state
           /\ state.kind = "Cooldown" =>
                controller'.state =
                  IF now > state.starttime + config.cooldown_time
                    THEN [kind |-> "Idle", starttime |-> 0]
                    ELSE state
           /\ state.kind \in {"Running", "Cooldown"} =>
                \A other \in UpdateTemps :
                  update(state, config, other, now).state = controller'.state
     ]_vars

\* A turn was taken in Running exactly at t0 + minimum_runtime, on a
\* reading below the threshold, and the state is still Running{t0}.
C15_Witness ==
  /\ ctl_pc = "sleep" /\ ctl_wake = now + Secs(1)
  /\ controller.state.kind = "Running"
  /\ controller.config.minimum_runtime > 0
  /\ now = controller.state.starttime + controller.config.minimum_runtime
  /\ DHT11_WATCH.val[1] < controller.config.threshold_temperature
  /\ ~controller_state_change

\* C16: update returns true when the state it leaves differs from the
\* state it was called in, and false when variant and start time are the
\* same.
C16_ReturnsChanged ==
  [][ CtlTick =>
        (controller_state_change' <=> controller'.state # controller.state)
    ]_vars

\* update returned true for Cooldown to Idle, and the relay was not
\* written.
C16_Witness ==
  /\ ctl_pc = "sleep" /\ ctl_wake = now + Secs(1)
  /\ controller_state_change
  /\ controller.state = Idle
  /\ ~relay_output

\* C17: nothing is on the Watch until the third acquisition has returned,
\* and from then on the Reading with sequence number k is the sample of
\* acquisition k + 2; so a consumer that is past a get() (the control
\* loop asleep, the CLI reading bytes, the TCP loop with a Reading) got
\* the third or a later sample.
C17_TwoDiscarded ==
  /\ DHT11_WATCH.init <=> n_acquired >= 3
  /\ DHT11_WATCH.id = (IF n_acquired >= 3 THEN n_acquired - 2 ELSE 0)
  /\ (ctl_pc = "sleep" \/ cli_pc = "read")  => n_acquired >= 3
  /\ \A c \in {dht11_controller_reciever, dht11_tcp_reciever, dht11_monitor} :
       c >= 1 => (c + 2 <= n_acquired /\ c + 2 >= 3)

\* Each of the three consumers has completed its first get(), with the
\* sample of the third acquisition.
C17_Witness ==
  /\ n_acquired = 3
  /\ dht11_controller_reciever = 1
  /\ dht11_tcp_reciever = 1
  /\ dht11_monitor = 1
  /\ ctl_pc = "sleep" /\ cli_pc = "read" /\ tcp_pc = "read"

\* C18: once the control task has built its controller, whenever it is
\* suspended the relay is high iff the state is Running; the relay goes
\* high only in a step that enters Running, low only in a step that enters
\* Cooldown, and is low when the controller is built.
C18_RelayIffRunning ==
  [][ /\ Started => (relay_output <=> controller.state.kind = "Running")
      /\ (~Started /\ Started') => ~relay_output'
      /\ (Started /\ ~relay_output /\ relay_output')
           => (controller.state.kind # "Running"
               /\ controller'.state.kind = "Running")
      /\ (Started /\ relay_output /\ ~relay_output')
           => (controller.state.kind # "Cooldown"
               /\ controller'.state.kind = "Cooldown") ]_vars

\* The relay was switched off on entering Cooldown, and stayed off through
\* the Idle that followed.
C18_Witness ==
  /\ Started
  /\ relay_off_at > 0
  /\ ~relay_output
  /\ controller.state = Idle

\* C19 as claimed: when a tick applies a pushed config, every field whose
\* option the SetConfig command omitted keeps the value it had in the
\* controller's active config.
C19_OmittedFieldsKept ==
  [][ (CtlTick /\ CONTROLLER_UPDATE_CONFIG.full) =>
        LET args == CONTROLLER_UPDATE_CONFIG.val.args
        IN /\ args.set_temp = <<>> =>
                controller'.config.threshold_temperature
                  = controller.config.threshold_temperature
           /\ args.min_runtime_secs = <<>> =>
                controller'.config.minimum_runtime
                  = controller.config.minimum_runtime
           /\ args.min_cooldown_secs = <<>> =>
                controller'.config.cooldown_time
                  = controller.config.cooldown_time ]_vars

\* C20 as claimed: whenever the Status command reports Running{t0} or
\* Cooldown{t0}, the time elapsed since t0 is at most the minimum_runtime
\* (the cooldown_time) of the status the CLI holds, so the subtraction
\* does not underflow and the task is not aborted.
C20_RemainingNeverUnderflows ==
  [][ CliStatus =>
        LET state == controller_state'.state
            config == controller_state'.config
        IN /\ state.kind = "Running"
                => now - state.starttime <= config.minimum_runtime
           /\ state.kind = "Cooldown"
                => now - state.starttime <= config.cooldown_time
           /\ ~halted' ]_vars

\* C21 as claimed: whenever the control task is suspended in its per-tick
\* delay, the status it signalled last carries the controller's current
\* state and its active config, also after a tick that drained and applied
\* a pending config.
C21_StatusIsCurrent ==
  ctl_pc = "sleep"
    => last_status = [state |-> controller.state, config |-> controller.config]

====
